---- MODULE Spec2Model ----
(***************************************************************************)
(* Model of the HRDC chatbot retrieval pipeline:                           *)
(*   - DocumentProcessor.chunk_text        (src/document_processor.py)     *)
(*   - DatabaseManager and the upload loop (src/database.py)               *)
(*   - HRDCChatbot search and ask          (src/chatbot.py)                *)
(* Texts are sequences of one-character strings; positions are 0-based as  *)
(* in the Python source.                                                   *)
(***************************************************************************)
EXTENDS Integers, Sequences, FiniteSets, TLC

VARIABLES
    \* ---- DocumentProcessor.chunk_text ----
    text,            \* the text argument
    arg_chunk_size,  \* the chunk_size argument as passed (None when omitted)
    arg_overlap,     \* the overlap argument as passed (None when omitted)
    chunk_size,      \* local chunk_size after defaulting
    overlap,         \* local overlap after defaulting
    start,           \* local start
    chunks,          \* local chunks (the list returned)
    windows,         \* history: <<start, end>> of every appended chunk
    cpc,             \* position in chunk_text: "entry", "loop", "done"
    \* ---- the PostgreSQL store (schema of DatabaseManager.create_tables) ----
    documents,         \* rows of table documents
    document_content,  \* rows of table document_content
    use_vector,        \* TRUE: embedding column is vector(384); FALSE: JSONB
    doc_seq,           \* next value of documents.id (SERIAL)
    content_seq,       \* next value of document_content.id (SERIAL)
    \* ---- upload_processed_documents ----
    processed_len,     \* len(processed_data), the manifest being uploaded
    item_i,            \* number of manifest items already handled
    successful,        \* local successful
    failed,            \* local failed
    db_ret,            \* return value of the last DatabaseManager call
    upc,               \* position in upload_processed_documents: "idle", "loop"
    \* ---- HRDCChatbot ----
    db_conn,           \* self.db_conn: "None", "open", or "closed" (set but closed)
    pc,                \* position of the running chatbot call, "idle" when none
    op,                \* the call that is running: "none", "ask", "search"
    query,             \* its query argument
    limit,             \* the limit passed to the search
    use_vector_search, \* ask's use_vector_search argument
    query_embedding,   \* local query_embedding of search_similar_chunks
    path,              \* history: how the search ended ("vector", "embed_failed", ...)
    results,           \* the list the search returned
    kw_calls,          \* history: the search_by_keyword calls of this call
    synth_calls,       \* history: chat completion calls issued by this call
    response,          \* response_text of ask
    \* ---- HRDCChatbot.generate_embeddings_batch ----
    texts,             \* the texts argument
    batch_i,           \* loop variable i, the offset of the current sub-batch
    all_embeddings,    \* local all_embeddings
    requests,          \* history: the input list of every embeddings.create call
    in_flight,         \* embeddings.create calls sent and not yet returned
    aligned,           \* history: every response so far was index-aligned
    batch_failed,      \* history: an embeddings.create call raised
    embeddings_ret,    \* the list generate_embeddings_batch returned
    epc,               \* position: "loop", "call", "done"
    \* ---- regenerate_embeddings.py ----
    regen,             \* history: number of runs of the script and how the last one went
    \* ---- app.py: /ask requests on the shared chatbot ----
    db_obj,            \* the connection object chatbot.db_conn refers to, 0 for None
    conn_state,        \* conn_state[c]: "open" or "closed", for every connection made
    rpc,               \* rpc[r]: position of request r in the handler
    own,               \* history: own[r], the connection request r's connect_db made, 0 if none
    used               \* history: used[r], the connection request r's search ran on, 0 if none

chunkVars == <<text, arg_chunk_size, arg_overlap, chunk_size, overlap, start, chunks, windows, cpc>>

storeVars == <<documents, document_content, use_vector, doc_seq, content_seq>>

uploadVars == <<processed_len, item_i, successful, failed, db_ret, upc>>

botVars == <<db_conn, pc, op, query, limit, use_vector_search, query_embedding, path,
             results, kw_calls, synth_calls, response>>

embedVars == <<texts, batch_i, all_embeddings, requests, in_flight, aligned, batch_failed,
               embeddings_ret, epc>>

regenVars == <<regen>>

appVars == <<db_obj, conn_state, rpc, own, used>>

vars == <<chunkVars, storeVars, uploadVars, botVars, embedVars, regenVars, appVars>>

-----------------------------------------------------------------------------
(* Bounds *)

MaxTextLen == 6
MaxSize == 5
MaxLongLen == 2600
MaxIter == 8
MaxDocs == 1
MaxRows == 2
MaxChunksPerDoc == 2
MaxItems == 1
MaxStoreRows == 2
MaxLimit == 2
MaxTexts == 45
MaxRegens == 1
MaxRequests == 2
MaxConns == 3

-----------------------------------------------------------------------------
(* Python helpers *)

\* Python's None, a value outside the naturals.
None == 0 - 1

Max2(a, b) == IF a >= b THEN a ELSE b

Min2(a, b) == IF a <= b THEN a ELSE b

SetMax(S) == CHOOSE m \in S : \A x \in S : x <= m

SetMin(S) == CHOOSE m \in S : \A x \in S : m <= x

\* `x or d`: None and 0 are both falsy.
OrDefault(x, d) == IF x = None \/ x = 0 THEN d ELSE x

\* One index of a Python slice, clamped into 0..n.
SliceIndex(i, n) ==
    IF i < 0 THEN (IF i + n < 0 THEN 0 ELSE i + n)
    ELSE (IF i > n THEN n ELSE i)

\* s[a:b]
PySlice(s, a, b) ==
    LET na == SliceIndex(a, Len(s))
        nb == SliceIndex(b, Len(s))
    IN IF na < nb THEN SubSeq(s, na + 1, nb) ELSE <<>>

\* s.rfind(sub): highest 0-based index where sub occurs, -1 when absent.
rfind(s, sub) ==
    LET hits == {i \in 0..(Len(s) - Len(sub)) :
                    \A j \in 1..Len(sub) : s[i + j] = sub[j]}
    IN IF hits = {} THEN 0 - 1 ELSE SetMax(hits)

Whitespace == {" ", "\n", "\t", "\r"}

\* s.strip()
strip(s) ==
    LET keep == {i \in 1..Len(s) : s[i] \notin Whitespace}
    IN IF keep = {} THEN <<>> ELSE SubSeq(s, SetMin(keep), SetMax(keep))

-----------------------------------------------------------------------------
(* config.py *)

CHUNK_SIZE == 1000
CHUNK_OVERLAP == 200

-----------------------------------------------------------------------------
(* DocumentProcessor.chunk_text *)

ParaBreak == <<"\n", "\n">>
PeriodSpace == <<".", " ">>
PeriodNewline == <<".", "\n">>

\* A cut that also takes a boundary exactly at the 50% mark.
WindowEndAtHalf(t, s, size) ==
    LET end == s + size
        chunk == PySlice(t, s, end)
        last_para == rfind(chunk, ParaBreak)
        last_period == Max2(rfind(chunk, PeriodSpace), rfind(chunk, PeriodNewline))
    IN IF end < Len(t)
       THEN IF 2 * last_para >= size
            THEN s + last_para
            ELSE IF 2 * last_period >= size
                 THEN s + last_period + 1
                 ELSE end
       ELSE end

\* The value of `end` when the chunk is appended: start + chunk_size, moved
\* back to a paragraph or sentence boundary past the 50% mark when the
\* window is not the last one.
WindowEnd(t, s, size) ==
    LET end == s + size
        chunk == PySlice(t, s, end)
        last_para == rfind(chunk, ParaBreak)
        last_period == Max2(rfind(chunk, PeriodSpace), rfind(chunk, PeriodNewline))
    IN IF end < Len(t)
       THEN IF 2 * last_para > size
            THEN s + last_para
            ELSE IF 2 * last_period > size
                 THEN s + last_period + 1
                 ELSE end
       ELSE end

\* start = end - overlap
NextStart(end, ov) == end - ov

\* Entry of chunk_text: the two defaults and the empty-text return.
ChunkEntry ==
    /\ cpc = "entry"
    /\ chunk_size' = OrDefault(arg_chunk_size, CHUNK_SIZE)
    /\ overlap' = OrDefault(arg_overlap, CHUNK_OVERLAP)
    /\ cpc' = IF text = <<>> THEN "done" ELSE "loop"
    /\ UNCHANGED <<text, arg_chunk_size, arg_overlap, start, chunks, windows>>

\* One iteration of the while loop.
ChunkIter ==
    /\ cpc = "loop"
    /\ start < Len(text)
    /\ Len(chunks) < MaxIter
    /\ LET end == WindowEnd(text, start, chunk_size)
       IN /\ chunks' = Append(chunks, strip(PySlice(text, start, end)))
          /\ windows' = Append(windows, <<start, end>>)
          /\ start' = NextStart(end, overlap)
    /\ UNCHANGED <<text, arg_chunk_size, arg_overlap, chunk_size, overlap, cpc>>

\* Loop exit and return.
ChunkReturn ==
    /\ cpc = "loop"
    /\ ~(start < Len(text))
    /\ cpc' = "done"
    /\ UNCHANGED <<text, arg_chunk_size, arg_overlap, chunk_size, overlap, start, chunks, windows>>

Alphabet == {"a", ".", " ", "\n"}

ShortTexts == UNION {[1..n -> Alphabet] : n \in 0..MaxTextLen}

\* A text of n characters with no paragraph or sentence break.
PlainText(n) == [i \in 1..n |-> "a"]

LongLens == {n \in CHUNK_SIZE..MaxLongLen : n % 100 = 0 \/ n % 100 = 1}

\* The calls of chunk_text: short texts over the alphabet with every small
\* size > overlap >= 0, and long plain texts with the configured size and
\* overlap, passed or defaulted.
ChunkInit ==
    /\ \/ \E t \in ShortTexts, s \in 1..MaxSize, o \in 0..(MaxSize - 1) :
             /\ s > o
             /\ text = t
             /\ arg_chunk_size = s
             /\ arg_overlap = o
       \/ \E n \in LongLens, s \in {None, CHUNK_SIZE}, o \in {None, 0, CHUNK_OVERLAP} :
             /\ text = PlainText(n)
             /\ arg_chunk_size = s
             /\ arg_overlap = o
    /\ chunk_size = None
    /\ overlap = None
    /\ start = 0
    /\ chunks = <<>>
    /\ windows = <<>>
    /\ cpc = "entry"

-----------------------------------------------------------------------------
(* DatabaseManager (src/database.py) *)

\* A date string of the metadata manifest: its format and the day it names.
\* "dmy" is "25 April 2024", "iso" is "2024-04-25", "bad" is any other text.
DateStrings ==
    {[fmt |-> "dmy", day |-> 1], [fmt |-> "iso", day |-> 2],
     [fmt |-> "bad", day |-> 0], [fmt |-> "unknown", day |-> 0]}

\* parse_date: None for a missing, 'Unknown' or unparsable string.
parse_date(ds) == IF ds.fmt \in {"dmy", "iso"} THEN ds.day ELSE None

\* A NULL embedding column; a stored vector is a non-empty tuple.
NULL == <<>>

\* The rows built by enumerate(chunks), with or without embeddings.  The
\* embeddings argument is falsy both as None and as [], written <<>> here.
ChunkRows(document_id, cs, embeddings, first_id) ==
    LET with == embeddings # <<>> /\ Len(embeddings) = Len(cs)
    IN {[id |-> first_id + idx,
         document_id |-> document_id,
         chunk_index |-> idx,
         content |-> cs[idx + 1],
         embedding |-> IF with THEN embeddings[idx + 1] ELSE NULL] :
            idx \in 0..(Len(cs) - 1)}

\* A rollback that leaves the statements of the transaction in place.
rollback_keeps_pending(committed, pending) == pending

\* conn.rollback(): the table is as it was at the last commit, whatever the
\* statements of the open transaction had written.
rollback(committed, pending) == committed

\* Store effect of insert_document: on failure the transaction is rolled
\* back; a SERIAL value drawn before the failure is not given back.
insert_document(document, fail, drew) ==
    IF fail
    THEN /\ documents' = rollback(documents,
                                  IF drew
                                  THEN documents \cup {[id |-> doc_seq, date |-> parse_date(document.date)]}
                                  ELSE documents)
         /\ doc_seq' = IF drew THEN doc_seq + 1 ELSE doc_seq
         /\ db_ret' = [call |-> "insert_document", value |-> None]
    ELSE /\ documents' = documents \cup {[id |-> doc_seq, date |-> parse_date(document.date)]}
         /\ doc_seq' = doc_seq + 1
         /\ db_ret' = [call |-> "insert_document", value |-> doc_seq]

\* A schema without the REFERENCES constraint.
ForeignKeyAbsent(document_id) == TRUE

\* The foreign key of document_content.document_id: a non-NULL value must
\* name a row of documents.
ForeignKeyOk(document_id) ==
    document_id = None \/ \E d \in documents : d.id = document_id

\* Store effect of insert_document_chunks: one INSERT of all rows, then
\* commit; any error rolls the INSERT back and returns False.
insert_document_chunks(document_id, cs, embeddings, fail) ==
    IF fail \/ (cs # <<>> /\ ~ForeignKeyOk(document_id))
    THEN /\ document_content' =
               rollback(document_content,
                        IF ForeignKeyOk(document_id)
                        THEN document_content \cup ChunkRows(document_id, cs, embeddings, content_seq)
                        ELSE document_content)
         /\ content_seq' = content_seq
         /\ db_ret' = [call |-> "insert_document_chunks", value |-> FALSE]
    ELSE /\ document_content' = document_content \cup ChunkRows(document_id, cs, embeddings, content_seq)
         /\ content_seq' = content_seq + Len(cs)
         /\ db_ret' = [call |-> "insert_document_chunks", value |-> TRUE]

Contents == {<<"a">>, <<"a", "b">>}

\* Chunk texts of a processed manifest: chunk_text output, '' included.
ChunkTexts == {<<"a">>, <<>>}

ChunkLists == UNION {[1..n -> ChunkTexts] : n \in 1..MaxChunksPerDoc}

EmbeddingLists == {<<>>} \cup UNION {[1..n -> {<<1, 0>>}] : n \in 1..MaxChunksPerDoc}

\* A caller invokes db.insert_document(document).
InsertDocument ==
    /\ upc = "idle"
    /\ doc_seq <= MaxDocs
    /\ \E document \in {[date |-> ds] : ds \in DateStrings}, fail \in BOOLEAN, drew \in BOOLEAN :
          insert_document(document, fail, drew)
    /\ UNCHANGED <<document_content, use_vector, content_seq>>
    /\ UNCHANGED <<processed_len, item_i, successful, failed, upc>>

\* A caller invokes db.insert_document_chunks(document_id, chunks, embeddings).
InsertDocumentChunks ==
    /\ upc = "idle"
    /\ \E document_id \in 1..MaxDocs, cs \in ChunkLists, embeddings \in EmbeddingLists,
          fail \in BOOLEAN :
          /\ Cardinality(document_content) + Len(cs) <= MaxRows
          /\ insert_document_chunks(document_id, cs, embeddings, fail)
    /\ UNCHANGED <<documents, use_vector, doc_seq>>
    /\ UNCHANGED <<processed_len, item_i, successful, failed, upc>>

\* The vectors callers pass to update_embeddings.
UpdateVectors == {<<1, 0>>}

\* UPDATE document_content SET embedding = e WHERE id = chunk_id
SetEmbedding(rows, chunk_id, e) ==
    {IF r.id = chunk_id THEN [r EXCEPT !.embedding = e] ELSE r : r \in rows}

\* Store effect of update_embeddings.  The first UPDATE casts to jsonb, which
\* a vector(384) column rejects; the retry in the except clause runs in the
\* transaction the first error aborted, so it fails as well and the call
\* rolls back.  In a JSONB store the call commits unless a step fails.
update_embeddings(chunk_id, embedding, fail) ==
    IF use_vector \/ fail
    THEN /\ document_content' =
               rollback(document_content,
                        IF use_vector
                        THEN document_content
                        ELSE SetEmbedding(document_content, chunk_id, embedding))
         /\ db_ret' = [call |-> "update_embeddings", value |-> FALSE]
    ELSE /\ document_content' = SetEmbedding(document_content, chunk_id, embedding)
         /\ db_ret' = [call |-> "update_embeddings", value |-> TRUE]

\* A caller invokes db.update_embeddings(chunk_id, embedding).
UpdateEmbeddings ==
    /\ upc = "idle"
    /\ \E chunk_id \in 1..MaxRows, embedding \in UpdateVectors, fail \in BOOLEAN :
          update_embeddings(chunk_id, embedding, fail)
    /\ UNCHANGED <<documents, use_vector, doc_seq, content_seq>>
    /\ UNCHANGED <<processed_len, item_i, successful, failed, upc>>

\* DELETE FROM documents WHERE id = d.id, by an administrator: ON DELETE
\* CASCADE removes the chunk rows that reference the document.
DeleteDocument ==
    /\ upc = "idle"
    /\ \E d \in documents :
          /\ documents' = documents \ {d}
          /\ document_content' = {r \in document_content : r.document_id # d.id}
    /\ UNCHANGED <<use_vector, doc_seq, content_seq>>
    /\ UNCHANGED <<processed_len, item_i, successful, failed, db_ret, upc>>

Items == {[document |-> [date |-> ds], chunks |-> cs] : ds \in DateStrings, cs \in ChunkLists}

\* upload_processed_documents up to the loop: the manifest is loaded.  Its
\* length is fixed here; its items are read one per iteration.
UploadBegin ==
    /\ upc = "idle"
    /\ \E n \in 1..MaxItems : processed_len' = n
    /\ item_i' = 0
    /\ successful' = 0
    /\ failed' = 0
    /\ upc' = "loop"
    /\ UNCHANGED <<storeVars, db_ret>>

\* One iteration of the upload loop: insert_document, then, unless it
\* returned no id, insert_document_chunks.
UploadItem ==
    /\ upc = "loop"
    /\ item_i < processed_len
    /\ doc_seq <= MaxDocs
    /\ \E item \in Items, doc_fail \in BOOLEAN, drew \in BOOLEAN, chunk_fail \in BOOLEAN :
          /\ Cardinality(document_content) + Len(item.chunks) <= MaxRows
          /\ IF doc_fail
             THEN /\ insert_document(item.document, TRUE, drew)
                  /\ failed' = failed + 1
                  /\ UNCHANGED <<document_content, content_seq, successful>>
             ELSE /\ documents' = documents \cup {[id |-> doc_seq, date |-> parse_date(item.document.date)]}
                  /\ doc_seq' = doc_seq + 1
                  /\ IF chunk_fail
                     THEN /\ UNCHANGED <<document_content, content_seq, successful>>
                          /\ db_ret' = [call |-> "insert_document_chunks", value |-> FALSE]
                          /\ failed' = failed + 1
                     ELSE /\ document_content' = document_content \cup ChunkRows(doc_seq, item.chunks, <<>>, content_seq)
                          /\ content_seq' = content_seq + Len(item.chunks)
                          /\ db_ret' = [call |-> "insert_document_chunks", value |-> TRUE]
                          /\ successful' = successful + 1
                          /\ UNCHANGED failed
    /\ item_i' = item_i + 1
    /\ UNCHANGED <<use_vector, processed_len, upc>>

\* The loop is over; the function returns and its locals are gone.
UploadEnd ==
    /\ upc = "loop"
    /\ item_i = processed_len
    /\ upc' = "idle"
    /\ processed_len' = 0
    /\ item_i' = 0
    /\ successful' = 0
    /\ failed' = 0
    /\ UNCHANGED <<storeVars, db_ret>>

-----------------------------------------------------------------------------
(* HRDCChatbot (src/chatbot.py) *)

\* Rows carry the columns the search reads and returns; title, file_type and
\* download_url are copied through unchanged and are left out.

NoInfoMessage == "I couldn't find any relevant information in the HRDC documents to answer your question."

ErrorMessage == "I encountered an error while streamlining the answer. Please try again."

\* The text a successful chat completion returns.
LlmAnswer == "llm answer"

\* limit=7 in ask
AskLimit == 7

\* LIMIT 500 of the brute-force candidate query
FetchCap == 500

RECURSIVE Dot(_, _)
\* np.dot of two vectors of equal dimension
Dot(u, v) == IF u = <<>> THEN 0 ELSE Head(u) * Head(v) + Dot(Tail(u), Tail(v))

\* The square of np.linalg.norm
Norm2(u) == Dot(u, u)

\* Cosine similarity dot/(|q||e|), kept exact as the fraction num/den of its
\* signed square, which orders as the cosine does.  den = 0 is NaN.
Cosine(q, e) ==
    LET d == Dot(q, e)
    IN [num |-> IF d < 0 THEN 0 - d * d ELSE d * d, den |-> Norm2(q) * Norm2(e)]

IsNaN(x) == x.den = 0

SimGreater(x, y) == x.num * y.den > y.num * x.den

\* All orders of the finite set S.
Perms(S) == {f \in [1..Cardinality(S) -> S] : \A i, j \in 1..Cardinality(S) : f[i] = f[j] => i = j}

\* The orders of S in which no element stands after one it must precede.
\* Rows that tie stand in any order: SQL fixes none, and the brute-force
\* sort keeps the order of an unordered fetch.
\* before is the set of pairs <<a, b>> in which a must precede b.
SortedBy(S, before) ==
    {f \in Perms(S) : \A i, j \in 1..Cardinality(S) : i < j => <<f[j], f[i]>> \notin before}

\* LIMIT n, and seq[:n]
Take(seq, n) == SubSeq(seq, 1, Min2(n, Len(seq)))

\* str(row[5]) if row[5] else 'Unknown'
DateStr(d) == IF d = None THEN "Unknown" ELSE ToString(d)

\* document_content JOIN documents
DocOf(r) == CHOOSE d \in documents : d.id = r.document_id

Joined == {r \in document_content : \E d \in documents : d.id = r.document_id}

\* WHERE dc.embedding IS NOT NULL
Embedded == {r \in Joined : r.embedding # NULL}

\* A formatted row of search_similar_chunks
FormatVector(r, sim) ==
    [chunk_id |-> r.id, content |-> r.content, chunk_index |-> r.chunk_index,
     document_id |-> r.document_id, date |-> DateStr(DocOf(r).date), similarity |-> sim]

\* A formatted row of search_by_keyword: no similarity key
FormatKeyword(r) ==
    [chunk_id |-> r.id, content |-> r.content, chunk_index |-> r.chunk_index,
     document_id |-> r.document_id, date |-> DateStr(DocOf(r).date)]

\* Case folding of ILIKE
Lower(c) == IF c = "A" THEN "a" ELSE IF c = "B" THEN "b" ELSE c

\* content ILIKE '%keyword%', for keywords without LIKE metacharacters
ILike(content, keyword) ==
    \E i \in 0..(Len(content) - Len(keyword)) :
        \A j \in 1..Len(keyword) : Lower(content[i + j]) = Lower(keyword[j])

\* ORDER BY d.date DESC: NULL dates first, then later dates first
DateBefore(r1, r2) ==
    LET d1 == DocOf(r1).date
        d2 == DocOf(r2).date
    IN d2 # None /\ (d1 = None \/ d1 > d2)

\* A keyword search that a closed connection still answers.
search_by_keyword_on_closed(keyword, lim, fail) ==
    IF db_conn = "None" \/ fail
    THEN {<<>>}
    ELSE LET hits == {r \in Joined : ILike(r.content, keyword)}
         IN {Take([i \in 1..Cardinality(hits) |-> FormatKeyword(f[i])], lim) :
                f \in SortedBy(hits, {p \in hits \X hits : DateBefore(p[1], p[2])})}

\* The lists search_by_keyword can return: [] without a connection or when
\* the query fails, else the matching rows by date, cut at the limit.
search_by_keyword(keyword, lim, fail) ==
    IF db_conn = "None" \/ db_conn = "closed" \/ fail
    THEN {<<>>}
    ELSE LET hits == {r \in Joined : ILike(r.content, keyword)}
         IN {Take([i \in 1..Cardinality(hits) |-> FormatKeyword(f[i])], lim) :
                f \in SortedBy(hits, {p \in hits \X hits : DateBefore(p[1], p[2])})}

\* ORDER BY dc.embedding <=> q: ascending distance, NaN distances last
NativeBefore(q, r1, r2) ==
    /\ ~IsNaN(Cosine(q, r1.embedding))
    /\ (IsNaN(Cosine(q, r2.embedding)) \/ SimGreater(Cosine(q, r1.embedding), Cosine(q, r2.embedding)))

\* The lists the pgvector query can return.
NativeResults(q, lim) ==
    {Take([i \in 1..Cardinality(Embedded) |-> FormatVector(f[i], Cosine(q, f[i].embedding))], lim) :
        f \in SortedBy(Embedded, {p \in Embedded \X Embedded : NativeBefore(q, p[1], p[2])})}

\* The candidate sets the LIMIT 500 fetch can return.
Candidates == {C \in SUBSET Embedded : Cardinality(C) = Min2(FetchCap, Cardinality(Embedded))}

\* A scoring loop without the norm test.
ScoredWithoutNormTest(q, C) == C

\* if query_norm > 0 and doc_norm > 0
Scored(q, C) == {r \in C : Norm2(q) > 0 /\ Norm2(r.embedding) > 0}

\* A sort without reverse=True.
BruteForceBeforeAscending(q, r1, r2) == SimGreater(Cosine(q, r2.embedding), Cosine(q, r1.embedding))

\* similarities.sort(key=lambda x: x[8], reverse=True)
BruteForceBefore(q, r1, r2) == SimGreater(Cosine(q, r1.embedding), Cosine(q, r2.embedding))

\* The lists the brute-force branch can return: the scored candidates by
\* similarity, highest first, cut at the limit.
BruteForceResults(q, lim) ==
    UNION {LET S == Scored(q, C)
           IN {Take([i \in 1..Cardinality(S) |-> FormatVector(f[i], Cosine(q, f[i].embedding))], lim) :
                  f \in SortedBy(S, {p \in S \X S : BruteForceBefore(q, p[1], p[2])})} : C \in Candidates}

\* The position after the search returned: ask goes on to the answer, a
\* direct search call is over.
AfterSearch == IF op = "ask" THEN "answer" ELSE "done"

\* generate_answer_with_llm without its empty-context return.
generate_answer_always_calls(context_chunks, ok) ==
    [response |-> IF ok THEN LlmAnswer ELSE ErrorMessage, calls |-> 1]

\* What generate_answer_with_llm returns for the chunks and how many chat
\* completion calls it issues; ok tells whether the call succeeds.
generate_answer_with_llm(context_chunks, ok) ==
    IF context_chunks = <<>>
    THEN [response |-> NoInfoMessage, calls |-> 0]
    ELSE [response |-> IF ok THEN LlmAnswer ELSE ErrorMessage, calls |-> 1]

\* An except clause that gives up: an empty list, no keyword search.
OnSearchErrorGiveUp(q, lim, kw_fail) == {[results |-> <<>>, kw_calls |-> <<>>]}

\* What the except clause of search_similar_chunks returns: the keyword
\* search on the same query and limit.
OnSearchError(q, lim, kw_fail) ==
    {[results |-> r, kw_calls |-> <<[keyword |-> q, limit |-> lim, returned |-> r]>>] :
        r \in search_by_keyword(q, lim, kw_fail)}

\* What search_similar_chunks returns when generate_embedding gave None.
OnEmbeddingFailure == [results |-> <<>>, kw_calls |-> <<>>]

\* The query; of the stored contents one contains it up to case, one does not.
Queries == {<<"B">>}

QueryEmbeddings == {<<1, 0>>, <<0, 1>>}

\* connect_db, called from outside a running call.
ConnectDb ==
    /\ pc = "idle"
    /\ \E ok \in BOOLEAN : db_conn' = IF ok THEN "open" ELSE db_conn
    /\ UNCHANGED <<pc, op, query, limit, use_vector_search, query_embedding, path, results,
                   kw_calls, synth_calls, response>>

\* disconnect_db: closes the connection, db_conn stays set.
DisconnectDb ==
    /\ pc = "idle"
    /\ db_conn' = IF db_conn = "None" THEN "None" ELSE "closed"
    /\ UNCHANGED <<pc, op, query, limit, use_vector_search, query_embedding, path, results,
                   kw_calls, synth_calls, response>>

\* The locals of a call that starts.
StartCall(o, q, lim, vec) ==
    /\ op' = o
    /\ query' = q
    /\ limit' = lim
    /\ use_vector_search' = vec
    /\ query_embedding' = NULL
    /\ path' = "running"
    /\ results' = <<>>
    /\ kw_calls' = <<>>
    /\ synth_calls' = 0
    /\ response' = ""

\* ask(query, use_vector_search) up to the search: connect when db_conn is
\* not set.
AskBegin ==
    /\ pc = "idle"
    /\ \E q \in Queries, vec \in BOOLEAN, ok \in BOOLEAN :
          /\ StartCall("ask", q, AskLimit, vec)
          /\ db_conn' = IF db_conn = "None" /\ ok THEN "open" ELSE db_conn
          /\ pc' = IF vec THEN "entry" ELSE "keyword"
    
\* A direct call of search_similar_chunks(query, limit).
SearchBegin ==
    /\ pc = "idle"
    /\ \E q \in Queries, lim \in 1..MaxLimit : StartCall("search", q, lim, TRUE)
    /\ pc' = "entry"
    /\ UNCHANGED db_conn

\* search_similar_chunks: `if not self.db_conn: return []`.
SearchEntry ==
    /\ pc = "entry"
    /\ IF db_conn = "None"
       THEN /\ path' = "not_connected"
            /\ pc' = AfterSearch
       ELSE /\ pc' = "embed"
            /\ UNCHANGED path
    /\ UNCHANGED <<db_conn, op, query, limit, use_vector_search, query_embedding, results,
                   kw_calls, synth_calls, response>>

\* generate_embedding(query): a vector, or None when the API call fails.
EmbedQuery ==
    /\ pc = "embed"
    /\ \/ \E q \in QueryEmbeddings :
             /\ query_embedding' = q
             /\ pc' = "probe"
             /\ UNCHANGED <<path, results, kw_calls>>
       \/ /\ path' = "embed_failed"
          /\ results' = OnEmbeddingFailure.results
          /\ kw_calls' = OnEmbeddingFailure.kw_calls
          /\ pc' = AfterSearch
          /\ UNCHANGED query_embedding
    /\ UNCHANGED <<db_conn, op, query, limit, use_vector_search, synth_calls, response>>

\* The cursor and the information_schema lookup of the column type; a
\* closed connection or a failing query raises.
ProbeCapability ==
    /\ pc = "probe"
    /\ \E fail \in BOOLEAN :
          IF db_conn = "closed" \/ fail
          THEN pc' = "except" /\ path' = "error_capability"
          ELSE pc' = (IF use_vector THEN "native" ELSE "brute") /\ UNCHANGED path
    /\ UNCHANGED <<db_conn, op, query, limit, use_vector_search, query_embedding, results,
                   kw_calls, synth_calls, response>>

\* The pgvector branch: the query, fetchall and the formatting.
NativeSearch ==
    /\ pc = "native"
    /\ \/ \E r \in NativeResults(query_embedding, limit) :
             /\ results' = r
             /\ path' = "vector"
             /\ pc' = AfterSearch
       \/ /\ pc' = "except"
          /\ path' = "error_native"
          /\ UNCHANGED results
    /\ UNCHANGED <<db_conn, op, query, limit, use_vector_search, query_embedding,
                   kw_calls, synth_calls, response>>

\* The JSONB branch: the fetch, the scoring loop, the sort and the formatting.
BruteForceSearch ==
    /\ pc = "brute"
    /\ \/ \E r \in BruteForceResults(query_embedding, limit) :
             /\ results' = r
             /\ path' = "vector"
             /\ pc' = AfterSearch
       \/ /\ pc' = "except"
          /\ path' = "error_fetch"
          /\ UNCHANGED results
    /\ UNCHANGED <<db_conn, op, query, limit, use_vector_search, query_embedding,
                   kw_calls, synth_calls, response>>

\* The except clause of search_similar_chunks.
SearchExcept ==
    /\ pc = "except"
    /\ \E kw_fail \in BOOLEAN : \E out \in OnSearchError(query, limit, kw_fail) :
          /\ results' = out.results
          /\ kw_calls' = kw_calls \o out.kw_calls
    /\ pc' = AfterSearch
    /\ UNCHANGED <<db_conn, op, query, limit, use_vector_search, query_embedding, path,
                   synth_calls, response>>

\* ask with use_vector_search false: search_by_keyword(query, limit=7).
AskKeyword ==
    /\ pc = "keyword"
    /\ \E kw_fail \in BOOLEAN : \E r \in search_by_keyword(query, AskLimit, kw_fail) :
          /\ results' = r
          /\ kw_calls' = Append(kw_calls, [keyword |-> query, limit |-> AskLimit, returned |-> r])
    /\ path' = "keyword"
    /\ pc' = "answer"
    /\ UNCHANGED <<db_conn, op, query, limit, use_vector_search, query_embedding,
                   synth_calls, response>>

\* ask: response_text = generate_answer_with_llm(query, results), and return.
AskAnswer ==
    /\ pc = "answer"
    /\ \E ok \in BOOLEAN :
          LET out == generate_answer_with_llm(results, ok)
          IN /\ response' = out.response
             /\ synth_calls' = synth_calls + out.calls
    /\ pc' = "done"
    /\ UNCHANGED <<db_conn, op, query, limit, use_vector_search, query_embedding, path,
                   results, kw_calls>>

\* A return value that drops the sources.
AskResultDropsSources ==
    [query |-> query, response |-> response, sources |-> <<>>, num_sources |-> Len(results)]

\* The dict ask returns.
AskResult ==
    [query |-> query, response |-> response, sources |-> results, num_sources |-> Len(results)]

\* The caller takes the return value; the chatbot is idle again.
CallReturn ==
    /\ pc = "done"
    /\ pc' = "idle"
    /\ op' = "none"
    /\ query' = <<>>
    /\ limit' = 0
    /\ use_vector_search' = TRUE
    /\ query_embedding' = NULL
    /\ path' = "none"
    /\ results' = <<>>
    /\ kw_calls' = <<>>
    /\ synth_calls' = 0
    /\ response' = ""
    /\ UNCHANGED db_conn

-----------------------------------------------------------------------------
(* HRDCChatbot.generate_embedding and generate_embeddings_batch *)

\* batch_size = 20
batch_size == 20

\* text.replace("\n", " ")
clean(t) == [j \in 1..Len(t) |-> IF t[j] = "\n" THEN " " ELSE t[j]]

\* The vector the embeddings API computes for one input string: a function
\* of the string, here its length and its number of newlines.
ApiEmbedding(t) == <<Len(t), Cardinality({j \in 1..Len(t) : t[j] = "\n"})>>

\* What generate_embedding(text) returns when the API call succeeds.
generate_embedding(t) == ApiEmbedding(clean(t))

\* The whole input sent as one request.
SubBatchWhole(ts, i) == PySlice(ts, i, Len(ts))

\* batch = texts[i:i+batch_size]
SubBatch(ts, i) == PySlice(ts, i, i + batch_size)

\* clean_batch = [t.replace("\n", " ") for t in batch]
CleanBatch(batch) == [j \in 1..Len(batch) |-> clean(batch[j])]

\* response.data of a call that succeeds, when it is in input order.
AlignedResponse(request) == [j \in 1..Len(request) |-> ApiEmbedding(request[j])]

\* The orders response.data can come in: the code reads it as it comes and
\* does not sort by data.index.
Responses(request) ==
    {AlignedResponse(request),
     [j \in 1..Len(request) |-> ApiEmbedding(request[Len(request) + 1 - j])]}

\* all_embeddings keeping only the last sub-batch.
ExtendKeepsLast(all, batch_embeddings) == batch_embeddings

\* all_embeddings.extend(batch_embeddings)
Extend(all, batch_embeddings) == all \o batch_embeddings

\* An except clause that returns the vectors gathered so far.
OnBatchFailureKeepsPrefix(all) == all

\* except Exception: return []
OnBatchFailure(all) == <<>>

\* The loop head with a sub-batch left: the request is built and sent.
EmbedBatchSend ==
    /\ epc = "loop"
    /\ batch_i < Len(texts)
    /\ requests' = Append(requests, CleanBatch(SubBatch(texts, batch_i)))
    /\ in_flight' = in_flight + 1
    /\ epc' = "call"
    /\ UNCHANGED <<texts, batch_i, all_embeddings, aligned, batch_failed, embeddings_ret>>

\* embeddings.create returns or raises.
EmbedBatchReceive ==
    /\ epc = "call"
    /\ in_flight' = in_flight - 1
    /\ \/ \E data \in Responses(requests[Len(requests)]) :
             /\ all_embeddings' = Extend(all_embeddings, data)
             /\ aligned' = (aligned /\ data = AlignedResponse(requests[Len(requests)]))
             /\ batch_i' = batch_i + batch_size
             /\ epc' = "loop"
             /\ UNCHANGED <<batch_failed, embeddings_ret>>
       \/ /\ batch_failed' = TRUE
          /\ embeddings_ret' = OnBatchFailure(all_embeddings)
          /\ epc' = "done"
          /\ UNCHANGED <<all_embeddings, aligned, batch_i>>
    /\ UNCHANGED <<texts, requests>>

\* The loop is over: return all_embeddings.
EmbedBatchReturn ==
    /\ epc = "loop"
    /\ ~(batch_i < Len(texts))
    /\ embeddings_ret' = all_embeddings
    /\ epc' = "done"
    /\ UNCHANGED <<texts, batch_i, all_embeddings, requests, in_flight, aligned, batch_failed>>

\* The k-th text of a call: k characters, then a newline or one more.
TextOf(k, sep) == [j \in 1..(k + 1) |-> IF j = k + 1 THEN sep ELSE "a"]

\* The calls of generate_embeddings_batch: 0..MaxTexts texts, all different,
\* with or without newlines.
EmbedInit ==
    /\ \E n \in 0..MaxTexts, sep \in {"\n", "a"} : texts = [k \in 1..n |-> TextOf(k, sep)]
    /\ batch_i = 0
    /\ all_embeddings = <<>>
    /\ requests = <<>>
    /\ in_flight = 0
    /\ aligned = TRUE
    /\ batch_failed = FALSE
    /\ embeddings_ret = <<>>
    /\ epc = "loop"

RECURSIVE BatchOutcomes(_, _)
\* The lists the loop of generate_embeddings_batch can build from offset i
\* on when no call fails.
BatchOutcomes(ts, i) ==
    IF ~(i < Len(ts))
    THEN {<<>>}
    ELSE {Extend(data, rest) : data \in Responses(CleanBatch(SubBatch(ts, i))),
                               rest \in BatchOutcomes(ts, i + batch_size)}

\* The lists generate_embeddings_batch(ts) can return.
generate_embeddings_batch(ts) == BatchOutcomes(ts, 0) \cup {OnBatchFailure(<<>>)}

\* The rows of S in id order (ORDER BY id).
ById(S) ==
    CHOOSE f \in Perms(S) : \A i, j \in 1..Cardinality(S) : i < j => f[i].id <= f[j].id

\* A SELECT without the WHERE clause: every chunk, embedded or not.
EveryChunkOf(rows) == ById(rows)

\* SELECT id, content FROM document_content WHERE embedding IS NULL ORDER BY id
MissingEmbeddingOf(rows) == ById({r \in rows : r.embedding = NULL})

MissingEmbedding == MissingEmbeddingOf(document_content)

RECURSIVE Backfilled(_, _, _, _)
\* The table after the first k UPDATEs of zip(chunk_ids, embeddings).
Backfilled(rows, chunk_rows, embeddings, k) ==
    IF k = 0
    THEN rows
    ELSE SetEmbedding(Backfilled(rows, chunk_rows, embeddings, k - 1),
                      chunk_rows[k].id, embeddings[k])

\* What update_all_embeddings leaves in the table rows and what it returns,
\* on connection conn, given the list generate_embeddings_batch returned and
\* the step that fails: 0 the SELECT, k the k-th UPDATE, one more the commit,
\* beyond that none.  Every UPDATE casts to jsonb, which a vector(384) column
\* rejects.
UpdateAllOutcome(rows, conn, embeddings, fail_at) ==
    LET chunk_rows == MissingEmbeddingOf(rows)
        updates == Min2(Len(chunk_rows), Len(embeddings))
        failing == IF use_vector THEN Min2(1, fail_at) ELSE fail_at
    IN IF conn = "None"
       THEN [rows |-> rows, value |-> FALSE]
       ELSE IF fail_at = 0
       THEN [rows |-> rollback(rows, rows), value |-> FALSE]
       ELSE IF chunk_rows = <<>>
       THEN [rows |-> rows, value |-> TRUE]
       ELSE IF embeddings = <<>>
       THEN [rows |-> rows, value |-> FALSE]
       ELSE IF failing <= updates + 1
       THEN [rows |-> rollback(rows, Backfilled(rows, chunk_rows, embeddings,
                                                Min2(failing - 1, updates))),
             value |-> FALSE]
       ELSE [rows |-> Backfilled(rows, chunk_rows, embeddings, updates), value |-> TRUE]

\* Store effect and return value of update_all_embeddings on the chatbot's
\* connection.
update_all_embeddings(embeddings, fail_at) ==
    LET out == UpdateAllOutcome(document_content, db_conn, embeddings, fail_at)
    IN /\ document_content' = out.rows
       /\ db_ret' = [call |-> "update_all_embeddings", value |-> out.value]

\* The texts update_all_embeddings passes to generate_embeddings_batch.
MissingTextsOf(rows) ==
    [k \in 1..Len(MissingEmbeddingOf(rows)) |-> MissingEmbeddingOf(rows)[k].content]

MissingTexts == MissingTextsOf(document_content)

\* chatbot.update_all_embeddings(), on a connection that is not closed.
UpdateAllEmbeddings ==
    /\ upc = "idle"
    /\ pc = "idle"
    /\ db_conn # "closed"
    /\ \E embeddings \in generate_embeddings_batch(MissingTexts), fail_at \in 0..(MaxRows + 2) :
          update_all_embeddings(embeddings, fail_at)
    /\ UNCHANGED <<documents, use_vector, doc_seq, content_seq>>
    /\ UNCHANGED <<processed_len, item_i, successful, failed, upc>>

-----------------------------------------------------------------------------
(* regenerate_embeddings.py *)

\* A clearing that is lost: the table as it was.
ClearEmbeddingsUndone(rows) == rows

\* UPDATE document_content SET embedding = NULL, committed.
ClearEmbeddings(rows) == {[r EXCEPT !.embedding = NULL] : r \in rows}

\* One run of the script on its own chatbot and connection.  It returns when
\* connect_db fails; an error in the clearing or in the count goes to the
\* except clause, which rolls back; otherwise it calls update_all_embeddings,
\* ignores what that returns and prints the success report.
RegenerateEmbeddings ==
    /\ upc = "idle"
    /\ regen.runs < MaxRegens
    /\ \E fail_step \in {"none", "connect", "clear", "count"} :
          LET cleared == ClearEmbeddings(document_content)
          IN CASE fail_step = "connect" ->
                    /\ document_content' = document_content
                    /\ regen' = [runs |-> regen.runs + 1, report |-> "not_connected",
                                 cleared |-> FALSE, embed_failed |-> FALSE]
               [] fail_step = "clear" ->
                    /\ document_content' = rollback(document_content, cleared)
                    /\ regen' = [runs |-> regen.runs + 1, report |-> "error",
                                 cleared |-> FALSE, embed_failed |-> FALSE]
               [] fail_step = "count" ->
                    /\ document_content' = rollback(cleared, cleared)
                    /\ regen' = [runs |-> regen.runs + 1, report |-> "error",
                                 cleared |-> TRUE, embed_failed |-> FALSE]
               [] fail_step = "none" ->
                    \E embeddings \in generate_embeddings_batch(MissingTextsOf(cleared)),
                       fail_at \in 0..(MaxStoreRows + 2) :
                          /\ document_content' =
                                UpdateAllOutcome(cleared, "open", embeddings, fail_at).rows
                          /\ regen' = [runs |-> regen.runs + 1, report |-> "success",
                                       cleared |-> TRUE,
                                       embed_failed |-> (cleared # {} /\ embeddings = <<>>)]
    /\ UNCHANGED <<documents, use_vector, doc_seq, content_seq>>
    /\ UNCHANGED uploadVars

\* The script has not run.
RegenIdle == regen = [runs |-> 0, report |-> "none", cleared |-> FALSE, embed_failed |-> FALSE]

-----------------------------------------------------------------------------
(* Specifications *)

\* chunk_text is not running.
ChunkIdle ==
    /\ text = <<>>
    /\ arg_chunk_size = None
    /\ arg_overlap = None
    /\ chunk_size = None
    /\ overlap = None
    /\ start = 0
    /\ chunks = <<>>
    /\ windows = <<>>
    /\ cpc = "done"

\* The tables right after create_tables on an empty database.
StoreEmpty ==
    /\ documents = {}
    /\ document_content = {}
    /\ doc_seq = 1
    /\ content_seq = 1

\* No upload is running.
UploadIdle ==
    /\ processed_len = 0
    /\ item_i = 0
    /\ successful = 0
    /\ failed = 0
    /\ db_ret = [call |-> "none", value |-> None]
    /\ upc = "idle"

\* A chatbot that was constructed and has run nothing yet.
BotIdle ==
    /\ db_conn = "None"
    /\ pc = "idle"
    /\ op = "none"
    /\ query = <<>>
    /\ limit = 0
    /\ use_vector_search = TRUE
    /\ query_embedding = NULL
    /\ path = "none"
    /\ results = <<>>
    /\ kw_calls = <<>>
    /\ synth_calls = 0
    /\ response = ""

\* generate_embeddings_batch is not running.
EmbedIdle ==
    /\ texts = <<>>
    /\ batch_i = 0
    /\ all_embeddings = <<>>
    /\ requests = <<>>
    /\ in_flight = 0
    /\ aligned = TRUE
    /\ batch_failed = FALSE
    /\ embeddings_ret = <<>>
    /\ epc = "done"

\* No /ask request is being handled and none has been.
AppIdle ==
    /\ db_obj = 0
    /\ conn_state = <<>>
    /\ rpc = [r \in 1..MaxRequests |-> "idle"]
    /\ own = [r \in 1..MaxRequests |-> 0]
    /\ used = [r \in 1..MaxRequests |-> 0]

\* The /ask handler, one instance per request being served; every instance
\* works on the one chatbot object of the module, whose db_conn is db_obj.
Requests == 1..MaxRequests

\* chatbot.connect_db() of request r: psycopg2.connect makes a new connection
\* and db_conn is set to it, whatever db_conn referred to before; when the
\* connection cannot be made db_conn keeps its value and the handler goes on.
HandlerConnectDb(r) ==
    /\ rpc[r] = "idle"
    /\ \/ /\ Len(conn_state) < MaxConns
          /\ conn_state' = Append(conn_state, "open")
          /\ db_obj' = Len(conn_state) + 1
          /\ own' = [own EXCEPT ![r] = Len(conn_state) + 1]
       \/ /\ own' = [own EXCEPT ![r] = 0]
          /\ UNCHANGED <<db_obj, conn_state>>
    /\ rpc' = [rpc EXCEPT ![r] = "connected"]
    /\ UNCHANGED used

\* chatbot.ask(query) of request r starts its search: when db_conn is None
\* ask calls connect_db once more; the cursor is then taken from the
\* connection db_conn refers to at that moment.
HandlerAskBegin(r) ==
    /\ rpc[r] = "connected"
    /\ \/ /\ db_obj = 0
          /\ Len(conn_state) < MaxConns
          /\ conn_state' = Append(conn_state, "open")
          /\ db_obj' = Len(conn_state) + 1
          /\ own' = [own EXCEPT ![r] = Len(conn_state) + 1]
          /\ used' = [used EXCEPT ![r] = Len(conn_state) + 1]
       \/ /\ used' = [used EXCEPT ![r] = db_obj]
          /\ UNCHANGED <<db_obj, conn_state, own>>
    /\ rpc' = [rpc EXCEPT ![r] = "searching"]

\* The search of request r is over and ask returns its record (a search on a
\* closed connection ends in the keyword fallback, which returns no rows).
HandlerAskEnd(r) ==
    /\ rpc[r] = "searching"
    /\ rpc' = [rpc EXCEPT ![r] = "searched"]
    /\ UNCHANGED <<db_obj, conn_state, own, used>>

\* chatbot.disconnect_db() of request r: the connection db_conn refers to at
\* that moment is closed; db_conn keeps referring to it.
HandlerDisconnectDb(r) ==
    /\ rpc[r] = "searched"
    /\ conn_state' = IF db_obj # 0
                        THEN [conn_state EXCEPT ![db_obj] = "closed"]
                        ELSE conn_state
    /\ rpc' = [rpc EXCEPT ![r] = "done"]
    /\ UNCHANGED <<db_obj, own, used>>

\* The response of request r is sent; the handler's slot serves a next request.
HandlerReturn(r) ==
    /\ rpc[r] = "done"
    /\ rpc' = [rpc EXCEPT ![r] = "idle"]
    /\ own' = [own EXCEPT ![r] = 0]
    /\ used' = [used EXCEPT ![r] = 0]
    /\ UNCHANGED <<db_obj, conn_state>>

AppInit ==
    ChunkIdle /\ StoreEmpty /\ use_vector = FALSE /\ UploadIdle /\ BotIdle /\ EmbedIdle /\ RegenIdle /\ AppIdle

AppNext ==
    \/ \E r \in Requests : HandlerConnectDb(r) /\ UNCHANGED <<chunkVars, storeVars, uploadVars, botVars, embedVars, regenVars>>
    \/ \E r \in Requests : HandlerAskBegin(r) /\ UNCHANGED <<chunkVars, storeVars, uploadVars, botVars, embedVars, regenVars>>
    \/ \E r \in Requests : HandlerAskEnd(r) /\ UNCHANGED <<chunkVars, storeVars, uploadVars, botVars, embedVars, regenVars>>
    \/ \E r \in Requests : HandlerDisconnectDb(r) /\ UNCHANGED <<chunkVars, storeVars, uploadVars, botVars, embedVars, regenVars>>
    \/ \E r \in Requests : HandlerReturn(r) /\ UNCHANGED <<chunkVars, storeVars, uploadVars, botVars, embedVars, regenVars>>

SpecApp == AppInit /\ [][AppNext]_vars

ChunkNext ==
    \/ ChunkEntry /\ UNCHANGED <<storeVars, uploadVars, botVars, embedVars, regenVars, appVars>>
    \/ ChunkIter /\ UNCHANGED <<storeVars, uploadVars, botVars, embedVars, regenVars, appVars>>
    \/ ChunkReturn /\ UNCHANGED <<storeVars, uploadVars, botVars, embedVars, regenVars, appVars>>

\* chunk_text applied to every input that ChunkInit draws.
ChunkSpecInit ==
    ChunkInit /\ StoreEmpty /\ use_vector = FALSE /\ UploadIdle /\ BotIdle /\ EmbedIdle /\ RegenIdle /\ AppIdle

SpecChunk == ChunkSpecInit /\ [][ChunkNext]_vars

DbInit ==
    ChunkIdle /\ StoreEmpty /\ use_vector \in BOOLEAN /\ UploadIdle /\ BotIdle /\ EmbedIdle /\ RegenIdle /\ AppIdle

DbNext ==
    \/ InsertDocument /\ UNCHANGED <<chunkVars, botVars, embedVars, regenVars, appVars>>
    \/ InsertDocumentChunks /\ UNCHANGED <<chunkVars, botVars, embedVars, regenVars, appVars>>
    \/ UploadBegin /\ UNCHANGED <<chunkVars, botVars, embedVars, regenVars, appVars>>
    \/ UploadItem /\ UNCHANGED <<chunkVars, botVars, embedVars, regenVars, appVars>>
    \/ UploadEnd /\ UNCHANGED <<chunkVars, botVars, embedVars, regenVars, appVars>>
    \/ UpdateEmbeddings /\ UNCHANGED <<chunkVars, botVars, embedVars, regenVars, appVars>>
    \/ UpdateAllEmbeddings /\ UNCHANGED <<chunkVars, botVars, embedVars, regenVars, appVars>>
    \/ DeleteDocument /\ UNCHANGED <<chunkVars, botVars, embedVars, regenVars, appVars>>
    \/ ConnectDb /\ UNCHANGED <<chunkVars, storeVars, uploadVars, embedVars, regenVars, appVars>>

EmbedNext ==
    \/ EmbedBatchSend /\ UNCHANGED <<chunkVars, storeVars, uploadVars, botVars, regenVars, appVars>>
    \/ EmbedBatchReceive /\ UNCHANGED <<chunkVars, storeVars, uploadVars, botVars, regenVars, appVars>>
    \/ EmbedBatchReturn /\ UNCHANGED <<chunkVars, storeVars, uploadVars, botVars, regenVars, appVars>>

EmbedSpecInit ==
    EmbedInit /\ ChunkIdle /\ StoreEmpty /\ use_vector = FALSE /\ UploadIdle /\ BotIdle /\ RegenIdle /\ AppIdle

\* generate_embeddings_batch applied to every input of EmbedInit.
SpecEmbed == EmbedSpecInit /\ [][EmbedNext]_vars

\* Ingestion: the DatabaseManager calls and the upload loop on one store.
SpecDb == DbInit /\ [][DbNext]_vars

Embeddings == {NULL, <<0, 0>>, <<1, 0>>, <<1, 1>>}

\* The stores an ingestion can leave.  Two documents, the first undated or
\* dated after the second; chunk rows 1..m, each of one of the documents and
\* numbered within it in id order.
StoredDocuments == {{[id |-> 1, date |-> d], [id |-> 2, date |-> 1]} : d \in {None, 2}}

StoredRows(m, f) ==
    {[id |-> i,
      document_id |-> f[i][1],
      chunk_index |-> Cardinality({k \in 1..(i - 1) : f[k][1] = f[i][1]}),
      content |-> f[i][2],
      embedding |-> f[i][3]] : i \in 1..m}

\* The stores a backfill can find: one document, chunk rows 1..m with or
\* without embeddings.
BackfillInit ==
    /\ ChunkIdle
    /\ UploadIdle
    /\ BotIdle
    /\ EmbedIdle
    /\ RegenIdle
    /\ AppIdle
    /\ use_vector \in BOOLEAN
    /\ documents = {[id |-> 1, date |-> 1]}
    /\ \E m \in 0..MaxStoreRows :
          \E f \in [1..m -> {1} \X ChunkTexts \X Embeddings] :
              /\ document_content = StoredRows(m, f)
              /\ content_seq = m + 1
    /\ doc_seq = 2

BackfillNext ==
    \/ ConnectDb /\ UNCHANGED <<chunkVars, storeVars, uploadVars, embedVars, regenVars, appVars>>
    \/ UpdateAllEmbeddings /\ UNCHANGED <<chunkVars, botVars, embedVars, regenVars, appVars>>
    \/ RegenerateEmbeddings /\ UNCHANGED <<chunkVars, botVars, embedVars, appVars>>

\* update_all_embeddings runs and runs of regenerate_embeddings.py on every
\* store of BackfillInit.
SpecBackfill == BackfillInit /\ [][BackfillNext]_vars

BotInit ==
    /\ ChunkIdle
    /\ UploadIdle
    /\ BotIdle
    /\ EmbedIdle
    /\ RegenIdle
    /\ AppIdle
    /\ use_vector \in BOOLEAN
    /\ documents \in StoredDocuments
    /\ \E m \in 0..MaxStoreRows :
          \E f \in [1..m -> {1, 2} \X Contents \X Embeddings] :
              /\ document_content = StoredRows(m, f)
              /\ content_seq = m + 1
    /\ doc_seq = 3

BotNext ==
    \/ ConnectDb /\ UNCHANGED <<chunkVars, storeVars, uploadVars, embedVars, regenVars, appVars>>
    \/ DisconnectDb /\ UNCHANGED <<chunkVars, storeVars, uploadVars, embedVars, regenVars, appVars>>
    \/ AskBegin /\ UNCHANGED <<chunkVars, storeVars, uploadVars, embedVars, regenVars, appVars>>
    \/ SearchBegin /\ UNCHANGED <<chunkVars, storeVars, uploadVars, embedVars, regenVars, appVars>>
    \/ SearchEntry /\ UNCHANGED <<chunkVars, storeVars, uploadVars, embedVars, regenVars, appVars>>
    \/ EmbedQuery /\ UNCHANGED <<chunkVars, storeVars, uploadVars, embedVars, regenVars, appVars>>
    \/ ProbeCapability /\ UNCHANGED <<chunkVars, storeVars, uploadVars, embedVars, regenVars, appVars>>
    \/ NativeSearch /\ UNCHANGED <<chunkVars, storeVars, uploadVars, embedVars, regenVars, appVars>>
    \/ BruteForceSearch /\ UNCHANGED <<chunkVars, storeVars, uploadVars, embedVars, regenVars, appVars>>
    \/ SearchExcept /\ UNCHANGED <<chunkVars, storeVars, uploadVars, embedVars, regenVars, appVars>>
    \/ AskKeyword /\ UNCHANGED <<chunkVars, storeVars, uploadVars, embedVars, regenVars, appVars>>
    \/ AskAnswer /\ UNCHANGED <<chunkVars, storeVars, uploadVars, embedVars, regenVars, appVars>>
    \/ CallReturn /\ UNCHANGED <<chunkVars, storeVars, uploadVars, embedVars, regenVars, appVars>>

\* The chatbot's calls over every store of BotInit.
Spec == BotInit /\ [][BotNext]_vars

-----------------------------------------------------------------------------
(* Properties of the search and of ask, checked under Spec *)

HasSimilarity(src) == "similarity" \in DOMAIN src

SearchOver == pc \in {"answer", "done"}

\* C1: when the embedding call for the query fails, ask returns the results
\* of the keyword search on the raw query string, none with a similarity
\* score.  The code returns an empty list instead: TLC refutes this.
C1_EmbeddingFailureGivesKeywordResults ==
    (pc = "done" /\ op = "ask" /\ use_vector_search /\ path = "embed_failed")
        => /\ AskResult.sources \in search_by_keyword(query, AskLimit, FALSE)
           /\ \A i \in 1..Len(AskResult.sources) : ~HasSimilarity(AskResult.sources[i])

\* C2: after a storage error in the vector path (capability lookup, native
\* search, candidate fetch or scoring) search_similar_chunks has called
\* search_by_keyword once, with the raw query and the same limit, and
\* returns what it returned; no result carries a similarity score.
C2_StorageErrorFallsBackToKeyword ==
    (SearchOver /\ path \in {"error_capability", "error_native", "error_fetch"})
        => /\ kw_calls = <<[keyword |-> query, limit |-> limit, returned |-> results]>>
           /\ results \in search_by_keyword(query, limit, FALSE) \cup search_by_keyword(query, limit, TRUE)
           /\ \A i \in 1..Len(results) : ~HasSimilarity(results[i])

\* A storage error in the candidate fetch, answered by a keyword hit.
C2_Witness == pc = "done" /\ path = "error_fetch" /\ results # <<>>

\* C3: when the vector path ends with no eligible candidate, the search
\* returns the keyword search results rather than an empty list.  The code
\* returns the empty list: TLC refutes this.
C3_NoCandidatesGivesKeywordResults ==
    (SearchOver /\ path = "vector" /\ results = <<>>)
        => results \in search_by_keyword(query, limit, FALSE)

\* C4: when the search step of ask returned no chunk, the response is the
\* fixed no-information message and the ask issued no chat completion call.
C4_EmptySearchSkipsSynthesis ==
    (pc = "done" /\ op = "ask" /\ results = <<>>)
        => (AskResult.response = NoInfoMessage /\ synth_calls = 0)

\* An ask that ended with no chunk after a vector search found nothing.
C4_Witness == pc = "done" /\ op = "ask" /\ results = <<>> /\ path = "vector"

\* C16: no search request issues a capability probe to the backend: the
\* store's native-vector capability is known from initialization.  The code
\* looks the column type up in information_schema in every search: TLC
\* refutes this.
C16_NoProbePerSearch == [][~ProbeCapability]_vars

\* The rows the search scored: every embedded row in the native mode, the
\* fetched rows of non-zero norm in the brute-force mode.
ScoredCandidates ==
    IF use_vector
    THEN {Embedded}
    ELSE {Scored(query_embedding, C) : C \in Candidates}

\* C19: in both modes the list a vector search returns is in non-increasing
\* order of similarity, has min(limit, number of scored candidates) entries,
\* each a scored candidate with its similarity, and no scored candidate left
\* out has a strictly higher similarity than one returned.
C19_ResultsAreTopByScore ==
    (SearchOver /\ path = "vector")
        => \E pool \in ScoredCandidates :
              /\ Len(results) = Min2(limit, Cardinality(pool))
              /\ \A i \in 1..Len(results) :
                    \E r \in pool : results[i] = FormatVector(r, Cosine(query_embedding, r.embedding))
              /\ \A i, j \in 1..Len(results) :
                    i < j => ~SimGreater(results[j].similarity, results[i].similarity)
              /\ \A r \in pool :
                    (\A i \in 1..Len(results) : results[i].chunk_id # r.id)
                        => \A i \in 1..Len(results) :
                              ~SimGreater(Cosine(query_embedding, r.embedding), results[i].similarity)

\* A brute-force search with limit 1 over two scored rows of different
\* similarity: one is returned, one is left out.
C19_Witness ==
    /\ pc = "done" /\ path = "vector" /\ ~use_vector /\ limit = 1 /\ Len(results) = 1
    /\ \E r \in Scored(query_embedding, Embedded) :
          SimGreater(results[1].similarity, Cosine(query_embedding, r.embedding))

\* The date of the document a result belongs to.
ResultDate(src) == (CHOOSE d \in documents : d.id = src.document_id).date

EqualSimilarity(x, y) == ~IsNaN(x) /\ ~IsNaN(y) /\ x.num * y.den = y.num * x.den

\* C20: of two vector search results with equal similarity the one with the
\* later document date comes first, and with equal dates the one with the
\* smaller chunk_index; keyword results come by document date descending.
\* Neither search mode orders ties: TLC refutes this.
C20_TiesByDateThenChunkIndex ==
    /\ (SearchOver /\ path = "vector")
          => \A i, j \in 1..Len(results) :
                (/\ i < j
                 /\ EqualSimilarity(results[i].similarity, results[j].similarity)
                 /\ ResultDate(results[i]) # None
                 /\ ResultDate(results[j]) # None)
                    => \/ ResultDate(results[i]) > ResultDate(results[j])
                       \/ /\ ResultDate(results[i]) = ResultDate(results[j])
                          /\ results[i].chunk_index <= results[j].chunk_index
    /\ (SearchOver /\ path \notin {"vector", "running"})
          => \A i, j \in 1..Len(results) :
                (i < j /\ ResultDate(results[i]) # None /\ ResultDate(results[j]) # None)
                    => ResultDate(results[i]) >= ResultDate(results[j])

\* C21: for the same query vector, stored chunks and limit, the native path
\* and the brute-force path return the same chunks in the same rank order:
\* every list one path returns is a list the other can return.  The native
\* query ranks zero-norm embeddings, the brute-force loop skips them: TLC
\* refutes this.
C21_ModesRankIdentically ==
    (SearchOver /\ path = "vector")
        => /\ results \in NativeResults(query_embedding, limit)
           /\ results \in BruteForceResults(query_embedding, limit)

C23_UnreachableStoreIsReported ==
    (pc = "done" /\ op = "ask" /\ db_conn = "None")
        => AskResult.response # NoInfoMessage

\* C24: while a call to the embedding API or to the language model is in
\* flight, ask holds no open storage connection.  The connection stays open
\* for the whole of ask: TLC refutes this.
C24_NoConnectionAcrossExternalCall ==
    (op = "ask" /\ (pc = "embed" \/ (pc = "answer" /\ results # <<>>)))
        => db_conn # "open"

\* C27: whatever fails, the record ask returns has the query, a response,
\* the sources of the search and num_sources = the number of sources <= 7;
\* with at least one source the response is the language model's answer or,
\* when that call failed, the fixed apologetic message, the sources kept.
C27_AskAlwaysReturnsRecord ==
    (pc = "done" /\ op = "ask")
        => /\ DOMAIN AskResult = {"query", "response", "sources", "num_sources"}
           /\ AskResult.query = query
           /\ AskResult.sources = results
           /\ AskResult.num_sources = Len(AskResult.sources)
           /\ AskResult.num_sources <= AskLimit
           /\ limit = AskLimit
           /\ AskResult.response \in {NoInfoMessage, LlmAnswer, ErrorMessage}
           /\ (results # <<>>) => (synth_calls = 1 /\ AskResult.response \in {LlmAnswer, ErrorMessage})

\* An ask whose synthesis failed after the search had found a chunk.
C27_Witness ==
    pc = "done" /\ op = "ask" /\ AskResult.response = ErrorMessage /\ AskResult.num_sources > 0

\* C30: an ask on a chatbot whose connection was closed by disconnect_db does
\* not reconnect: db_conn is still the closed connection, the vector search
\* fails at the cursor and its keyword fallback fails as well, and ask
\* returns no source and the no-information response.
C30_AskOnClosedConnectionFindsNothing ==
    (pc = "done" /\ op = "ask" /\ db_conn = "closed")
        => /\ AskResult.num_sources = 0
           /\ AskResult.sources = <<>>
           /\ AskResult.response = NoInfoMessage
           /\ path \in {"embed_failed", "error_capability", "keyword"}
           /\ (path = "error_capability") =>
                 kw_calls = <<[keyword |-> query, limit |-> AskLimit, returned |-> <<>>]>>

\* An ask on the closed connection whose vector search failed and fell back
\* to the keyword search.
C30_Witness ==
    pc = "done" /\ op = "ask" /\ db_conn = "closed" /\ path = "error_capability" /\ Len(kw_calls) = 1

-----------------------------------------------------------------------------
(* Properties of chunk_text, checked under SpecChunk *)

\* No paragraph break and no sentence break anywhere in t.
NoBreaks(t) ==
    /\ rfind(t, ParaBreak) < 0
    /\ rfind(t, PeriodSpace) < 0
    /\ rfind(t, PeriodNewline) < 0

\* The number of characters of the text two windows have in common.
Shared(w1, w2) ==
    LET lo == Max2(SliceIndex(w1[1], Len(text)), SliceIndex(w2[1], Len(text)))
        hi == Min2(SliceIndex(w1[2], Len(text)), SliceIndex(w2[2], Len(text)))
    IN IF hi > lo THEN hi - lo ELSE 0

\* C5: a 2500-character text without breaks, size 1000 and overlap 200,
\* gives exactly 3 chunks, the second and third window sharing 200
\* characters.  The code appends a fourth chunk: TLC refutes this.
C5_ExampleGivesThreeChunks ==
    (cpc = "done" /\ Len(text) = 2500 /\ NoBreaks(text)
       /\ arg_chunk_size = 1000 /\ arg_overlap = 200)
        => (Len(chunks) = 3 /\ Shared(windows[2], windows[3]) = 200)

\* C6: for size 1000, overlap 200 and a text of at least 1000 characters
\* without breaks, every two consecutive chunks, the last pair included,
\* share at least 200 characters of the text.  TLC refutes this.
C6_ConsecutiveChunksShare200 ==
    (Len(text) >= 1000 /\ NoBreaks(text) /\ arg_chunk_size = 1000 /\ arg_overlap = 200)
        => \A i \in 1..(Len(windows) - 1) : Shared(windows[i], windows[i + 1]) >= 200

\* C7: for size > overlap >= 0 the window start strictly increases from each
\* iteration to the next, so the loop terminates.  TLC refutes this.
C7_StartStrictlyIncreases == [][ChunkIter => start' > start]_vars

\* C8: every chunk chunk_text emits for a non-empty text is non-empty.
\* TLC refutes this.
C8_ChunksNonEmpty == \A i \in 1..Len(chunks) : chunks[i] # <<>>

\* C10: for every overlap in 0..size-1 the window after an emitted chunk
\* starts at that chunk's end minus the overlap passed.  TLC refutes this.
C10_NextWindowAtEndMinusOverlap ==
    (arg_chunk_size # None /\ arg_overlap # None)
        => \A i \in 1..(Len(windows) - 1) : windows[i + 1][1] = windows[i][2] - arg_overlap

\* The offsets in window w at which a paragraph break starts.
ParaBreaksIn(w) == {p \in 0..(Len(w) - 2) : w[p + 1] = "\n" /\ w[p + 2] = "\n"}

\* The offsets in window w of a period followed by a space or a newline.
SentenceEndsIn(w) == {p \in 0..(Len(w) - 2) : w[p + 1] = "." /\ w[p + 2] \in {" ", "\n"}}

\* The window of chunk i is not the last one of the text.
NonFinal(i) == windows[i][1] + chunk_size < Len(text)

-----------------------------------------------------------------------------
(* Properties of generate_embeddings_batch, checked under SpecEmbed *)

\* The requests sent so far, put end to end.
RECURSIVE Flatten(_)
Flatten(rs) == IF rs = <<>> THEN <<>> ELSE Head(rs) \o Flatten(Tail(rs))

\* C11: when every sub-batch call succeeded with an index-aligned response,
\* generate_embeddings_batch returns len(texts) vectors, the i-th being the
\* embedding of texts[i], for every input length.
C11_BatchIsOrderPreserving ==
    (epc = "done" /\ ~batch_failed /\ aligned)
        => /\ Len(embeddings_ret) = Len(texts)
           /\ \A i \in 1..Len(texts) : embeddings_ret[i] = generate_embedding(texts[i])

\* A call over three sub-batches that returned.
C11_Witness ==
    epc = "done" /\ ~batch_failed /\ aligned /\ Len(texts) > 2 * batch_size /\ Len(requests) = 3

\* C12: every request carries at most 20 texts, the requests put end to end
\* are the cleaned input up to the current offset, in input order, and at
\* most one request is in flight: a sub-batch is sent only when the previous
\* one has returned.
C12_SubBatchesSequentialAtMost20 ==
    /\ \A r \in 1..Len(requests) : Len(requests[r]) <= 20
    /\ Flatten(requests) = CleanBatch(PySlice(texts, 0, Len(Flatten(requests))))
    /\ in_flight <= 1
    /\ (epc = "call") = (in_flight = 1)
    /\ (epc = "done" /\ ~batch_failed) => Len(Flatten(requests)) = Len(texts)

\* The third sub-batch of a call is in flight.
C12_Witness == epc = "call" /\ Len(requests) = 3 /\ Len(texts) > 2 * batch_size

\* C13: when a sub-batch call failed, the call returns the empty list, also
\* when earlier sub-batches had succeeded, and the failed request is the last
\* one sent.
C13_FailureReturnsNothing ==
    (epc = "done" /\ batch_failed)
        => /\ embeddings_ret = <<>>
           /\ Len(all_embeddings) = batch_size * (Len(requests) - 1)
           /\ Len(Flatten(requests)) <= Len(texts)

\* The second sub-batch failed after the first had succeeded, with a third
\* one left unsent.
C13_Witness ==
    /\ epc = "done" /\ batch_failed
    /\ Len(requests) = 2 /\ all_embeddings # <<>> /\ Len(texts) > 2 * batch_size

-----------------------------------------------------------------------------
(* Properties of the store, checked under SpecDb *)

\* C9: after any sequence of insert_document and insert_document_chunks
\* calls, the chunk_index values of every document's chunks are exactly
\* 0..n-1, each once.  TLC refutes this.
C9_ChunkIndexContiguous ==
    \A d \in documents :
        LET rows == {r \in document_content : r.document_id = d.id}
        IN /\ {r.chunk_index : r \in rows} = 0..(Cardinality(rows) - 1)
           /\ \A r1, r2 \in rows : r1.chunk_index = r2.chunk_index => r1 = r2

\* A step of one call of the named mutating operation, made outside the
\* upload loop.
CallStep(name) ==
    /\ upc = "idle"
    /\ upc' = "idle"
    /\ db_conn' = db_conn
    /\ db_ret'.call = name
    /\ documents \subseteq documents'

\* C14: insert_document_chunks called with a non-empty embeddings list whose
\* length differs from the number of chunks returns False and inserts no
\* row.  The code inserts the chunks without embeddings: TLC refutes this.
C14_LengthMismatchRejected ==
    [][\A document_id \in 1..MaxDocs, cs \in ChunkLists, embeddings \in EmbeddingLists :
          (/\ CallStep("insert_document_chunks")
           /\ embeddings # <<>>
           /\ Len(embeddings) # Len(cs)
           /\ \E fail \in BOOLEAN : insert_document_chunks(document_id, cs, embeddings, fail))
              => (db_ret'.value = FALSE /\ document_content' = document_content)]_vars

\* The rows with no embedding.
WithoutEmbedding(rows) == {r \in rows : r.embedding = NULL}

\* C15: every call of insert_document, insert_document_chunks,
\* update_embeddings and update_all_embeddings is atomic: when it reports
\* failure the documents and chunks are as before the call, and when it
\* reports success all rows of the call are there: the one document, all the
\* chunk rows numbered from 0, the one embedding, or an embedding for every
\* chunk that had none.
C15_MutatingCallsAtomic ==
    [][/\ CallStep("insert_document") =>
             IF db_ret'.value = None
             THEN documents' = documents /\ document_content' = document_content
             ELSE /\ document_content' = document_content
                  /\ Cardinality(documents') = Cardinality(documents) + 1
                  /\ \E d \in documents' \ documents : d.id = db_ret'.value
       /\ CallStep("insert_document_chunks") =>
             IF db_ret'.value = FALSE
             THEN documents' = documents /\ document_content' = document_content
             ELSE /\ documents' = documents
                  /\ document_content \subseteq document_content'
                  /\ LET added == document_content' \ document_content
                     IN /\ {r.chunk_index : r \in added} = 0..(Cardinality(added) - 1)
                        /\ {r.id : r \in added} = content_seq..(content_seq' - 1)
                        /\ Cardinality(added) = content_seq' - content_seq
       /\ CallStep("update_embeddings") =>
             IF db_ret'.value = FALSE
             THEN documents' = documents /\ document_content' = document_content
             ELSE /\ documents' = documents
                  /\ \E chunk_id \in 1..MaxRows, e \in UpdateVectors :
                        document_content' = SetEmbedding(document_content, chunk_id, e)
       /\ CallStep("update_all_embeddings") =>
             IF db_ret'.value = FALSE
             THEN documents' = documents /\ document_content' = document_content
             ELSE /\ documents' = documents
                  /\ WithoutEmbedding(document_content') = {}
                  /\ document_content \ WithoutEmbedding(document_content) \subseteq document_content'
                  /\ {r.id : r \in document_content'} = {r.id : r \in document_content}]_vars

\* update_all_embeddings failed on an open connection to a JSONB store with
\* two chunks to fill, and both are still without embedding.
C15_Witness ==
    /\ db_ret = [call |-> "update_all_embeddings", value |-> FALSE]
    /\ db_conn = "open"
    /\ ~use_vector
    /\ Cardinality(WithoutEmbedding(document_content)) = 2

\* C17: update_all_embeddings writes the representation of the store: with
\* the embeddings generated and no storage fault it succeeds in a JSONB
\* store and in a vector store alike, and leaves no chunk without an
\* embedding.  The code casts to jsonb in both: TLC refutes this.
C17_BackfillSucceedsInBothModes ==
    [][(/\ CallStep("update_all_embeddings")
        /\ db_conn = "open"
        /\ \E embeddings \in BatchOutcomes(MissingTexts, 0) :
              update_all_embeddings(embeddings, MaxRows + 2))
          => (db_ret'.value = TRUE /\ WithoutEmbedding(document_content') = {})]_vars

\* Every chunk's document_id names a row of documents.
NoOrphans == \A r \in document_content : \E d \in documents : d.id = r.document_id

\* C18: no orphaned chunk exists in any reachable store: every chunk names an
\* existing document, a step that deletes a document leaves none of its
\* chunks, and every row insert_document_chunks adds names a document that
\* exists, so a call naming none adds nothing.
C18_NoOrphanedChunk ==
    /\ []NoOrphans
    /\ [][\A d \in documents \ documents' :
             \A r \in document_content' : r.document_id # d.id]_vars
    /\ [][CallStep("insert_document_chunks")
             => \A r \in document_content' \ document_content :
                   \E d \in documents : d.id = r.document_id]_vars

\* A document was inserted with chunks and deleted, its chunks went with it,
\* and a later insert_document_chunks for it was refused.
C18_Witness ==
    /\ documents = {}
    /\ document_content = {}
    /\ doc_seq > 1
    /\ content_seq > 1
    /\ db_ret = [call |-> "insert_document_chunks", value |-> FALSE]

-----------------------------------------------------------------------------
(* Properties of the backfill, checked under SpecBackfill *)

\* C26: update_all_embeddings never selects a chunk whose embedding is
\* present, and in every step that is not a run of regenerate_embeddings a
\* chunk that has an embedding keeps it as it is: only the script's clearing
\* takes an embedding away, so without it each chunk gets its embedding once.
C26_PresentEmbeddingNeverOverwritten ==
    /\ [](\A k \in 1..Len(MissingEmbedding) : MissingEmbedding[k].embedding = NULL)
    /\ [][(regen' = regen)
             => \A r \in document_content : r.embedding # NULL => r \in document_content']_vars

\* update_all_embeddings succeeded on a store that held a chunk with an
\* embedding the API does not produce: that chunk still has it, and no chunk
\* is left without one.
C26_Witness ==
    /\ regen.runs = 0
    /\ db_ret = [call |-> "update_all_embeddings", value |-> TRUE]
    /\ Cardinality(document_content) = 2
    /\ WithoutEmbedding(document_content) = {}
    /\ \E r \in document_content : r.embedding = <<1, 1>>
    /\ \E r \in document_content : r.embedding = generate_embedding(r.content)

\* C29: in a run of regenerate_embeddings whose embedding generation fails
\* the clearing was committed before, every chunk is left without an
\* embedding, and the run reaches its success report.
C29_FailedRegenerationLeavesAllCleared ==
    [][(regen'.runs = regen.runs + 1 /\ regen'.embed_failed)
          => /\ regen'.cleared
             /\ regen'.report = "success"
             /\ WithoutEmbedding(document_content') = document_content'
             /\ {r.id : r \in document_content'} = {r.id : r \in document_content}]_vars

\* A run whose generation failed on a store with chunks: it reported success
\* and no chunk has an embedding.
C29_Witness ==
    /\ regen.runs = 1
    /\ regen.embed_failed
    /\ regen.report = "success"
    /\ Cardinality(document_content) = 2
    /\ WithoutEmbedding(document_content) = document_content

-----------------------------------------------------------------------------
(* Properties of concurrent /ask requests, checked under SpecApp *)

\* C25: a request that opened a connection and has not finished its search
\* finds db_conn referring to that connection, still open; the search of a
\* request that opened a connection runs on that connection; and when no
\* request is being handled no connection is left open.
C25_EachRequestOwnsItsConnection ==
    /\ \A r \in Requests :
          (own[r] # 0 /\ rpc[r] \in {"connected", "searching"})
              => (db_obj = own[r] /\ conn_state[own[r]] = "open")
    /\ \A r \in Requests :
          (own[r] # 0 /\ rpc[r] \in {"searching", "searched", "done"})
              => used[r] = own[r]
    /\ (\A r \in Requests : rpc[r] = "idle")
          => \A c \in 1..Len(conn_state) : conn_state[c] = "closed"

====
